---- MODULE Spec2Model ----
(***************************************************************************)
(* Model of src/set_instance_tags/app.py: the custom-resource handler that *)
(* reads the tags of an EC2 instance, resolves the provisioning principal, *)
(* derives Synapse tags from the principal's profile and team membership   *)
(* and writes them back onto the instance.                                 *)
(*                                                                         *)
(* Python strings are TLA+ strings, except the values of the instance tags *)
(* (the ARN that get_principal_id splits), which are sequences of          *)
(* one-character strings so that split('/') is computed.  A dict is a      *)
(* function whose DOMAIN is the set of keys present; an ordered dict (the  *)
(* user profile) is a sequence of [key, value] items.  A Python function   *)
(* that can raise yields Return(v) or Raise(e).                            *)
(***************************************************************************)
EXTENDS Integers, Sequences, FiniteSets, TLC

VARIABLES
  event,              \* the lifecycle event handed to handler()
  environ,            \* os.environ: the keys that are set
  pc,                 \* position of the invocation
  calls,              \* every client call made so far, with its response
  instance_id,        \* local of create_or_update
  instance_tags,      \* local of create_or_update
  principal_id,       \* local of create_or_update (synapse_id below it)
  user_profile,       \* local of get_synapse_tags
  synapse_user_tags,  \* local of get_synapse_tags
  synapse_team_ids,   \* local of get_synapse_tags
  team_index,         \* position of the for loop of get_synapse_user_team_id
  user_team_id,       \* local of get_synapse_user_team_tags
  synapse_tags,       \* local of create_or_update
  outcome,            \* what the invocation reports: Running, Succeeded, Failed
  error,              \* the exception that ended the invocation
  tags_arg,           \* argument of a direct call of get_principal_id
  principal_result,   \* its result
  profile_arg,        \* arguments of a direct call of
  ignore_keys_arg,    \*   get_synapse_user_profile_tags
  profile_tags_result \* its result

vars == <<event, environ, pc, calls, instance_id, instance_tags, principal_id,
          user_profile, synapse_user_tags, synapse_team_ids, team_index,
          user_team_id, synapse_tags, outcome, error,
          tags_arg, principal_result,
          profile_arg, ignore_keys_arg, profile_tags_result>>

workflow_vars == <<event, environ, pc, calls, instance_id, instance_tags,
                   principal_id, user_profile, synapse_user_tags,
                   synapse_team_ids, team_index, user_team_id, synapse_tags,
                   outcome, error>>

direct_vars == <<tags_arg, principal_result,
                 profile_arg, ignore_keys_arg, profile_tags_result>>

-----------------------------------------------------------------------------
(* Bounds of the model *)

MaxTags == 2
MaxArnLen == 2
MaxProfileFields == 2
MaxRoster == 2

-----------------------------------------------------------------------------
(* Python values *)

None == "None"

Return(v) == [raised |-> FALSE, value |-> v]

Raise(type, message, raised_by) ==
  [raised |-> TRUE,
   error |-> [type |-> type, message |-> message, raised_by |-> raised_by]]

NoError == [type |-> "", message |-> "", raised_by |-> ""]

\* truth value of a string-or-None: None and '' are false
Truthy(x) == x # None /\ x # ""

SeqsUpTo(S, n) == UNION {[1..k -> S] : k \in 0..n}

Last(s) == s[Len(s)]

-----------------------------------------------------------------------------
(* Program constants *)

MISSING_INSTANCE_ID_ERROR_MESSAGE == "InstanceId parameter is required"

SYNAPSE_TAG_PREFIX == "synapse"

principal_arn_tag == "aws:servicecatalog:provisioningPrincipalArn"

DefaultIgnoreKeys == {"createdOn"}

TEAM_TO_ROLE_ARN_MAP_PARAM_NAME == "TEAM_TO_ROLE_ARN_MAP_PARAM_NAME"

-----------------------------------------------------------------------------
(* The functions of app.py that make no client call *)

\* get_instance_id(event)
get_instance_id(ev) ==
  IF "ResourceProperties" \notin DOMAIN ev
  THEN \* event.get(...) is None, and None.get raises
       Raise("AttributeError", "'NoneType' object has no attribute 'get'",
             "get_instance_id")
  ELSE LET resource_properties == ev.ResourceProperties
           id == IF "InstanceId" \in DOMAIN resource_properties
                 THEN resource_properties.InstanceId
                 ELSE None
       IN  IF ~Truthy(id)
           THEN Raise("ValueError", MISSING_INSTANCE_ID_ERROR_MESSAGE,
                      "get_instance_id")
           ELSE Return(id)

\* mutant: only a missing Tags entry is rejected, an empty list is returned
check_instance_tags_absent_only(response) ==
  IF "Tags" \notin DOMAIN response
  THEN Raise("Exception", "No tags returned", "get_instance_tags")
  ELSE Return(response.Tags)

\* get_instance_tags, from the response of describe_tags on
check_instance_tags(response) ==
  IF "Tags" \notin DOMAIN response \/ Len(response.Tags) = 0
  THEN Raise("Exception", "No tags returned", "get_instance_tags")
  ELSE Return(response.Tags)

\* str.split(sep) on a sequence of characters
RECURSIVE split(_, _)
split(s, sep) ==
  IF \A i \in 1..Len(s) : s[i] # sep
  THEN <<s>>
  ELSE LET i == CHOOSE j \in 1..Len(s) :
                  s[j] = sep /\ \A k \in 1..(j - 1) : s[k] # sep
       IN  <<SubSeq(s, 1, i - 1)>> \o split(SubSeq(s, i + 1, Len(s)), sep)

\* mutant: the scan keeps going, so the last matching tag decides
RECURSIVE get_principal_id_last_match(_)
get_principal_id_last_match(tags) ==
  IF Len(tags) = 0
  THEN Raise("ValueError",
             "Could not derive a provisioningPrincipalArn from tags",
             "get_principal_id")
  ELSE IF Last(tags).Key = principal_arn_tag
       THEN Return(Last(split(Last(tags).Value, "/")))
       ELSE get_principal_id_last_match(SubSeq(tags, 1, Len(tags) - 1))

\* get_principal_id(tags): the for loop with its else clause
RECURSIVE get_principal_id(_)
get_principal_id(tags) ==
  IF Len(tags) = 0
  THEN Raise("ValueError",
             "Could not derive a provisioningPrincipalArn from tags",
             "get_principal_id")
  ELSE IF Head(tags).Key = principal_arn_tag
       THEN Return(Last(split(Head(tags).Value, "/")))
       ELSE get_principal_id(Tail(tags))

\* mutant: the e-mail tags are appended after the synapse:userName tag
profile_item_tags_email_last(item) ==
  LET synapse_email == item.value \o "@synapse.org"
      derived == IF item.key = "userName"
                 THEN << [Key |-> SYNAPSE_TAG_PREFIX \o ":email",
                          Value |-> synapse_email],
                         [Key |-> "OwnerEmail", Value |-> synapse_email] >>
                 ELSE << >>
  IN  << [Key |-> SYNAPSE_TAG_PREFIX \o ":" \o item.key,
          Value |-> item.value] >> \o derived

\* the tags get_synapse_user_profile_tags appends for one profile item
profile_item_tags(item) ==
  LET synapse_email == item.value \o "@synapse.org"
      derived == IF item.key = "userName"
                 THEN << [Key |-> SYNAPSE_TAG_PREFIX \o ":email",
                          Value |-> synapse_email],
                         [Key |-> "OwnerEmail", Value |-> synapse_email] >>
                 ELSE << >>
  IN  derived \o << [Key |-> SYNAPSE_TAG_PREFIX \o ":" \o item.key,
                     Value |-> item.value] >>

\* get_synapse_user_profile_tags(user_profile, ignore_keys)
RECURSIVE get_synapse_user_profile_tags(_, _)
get_synapse_user_profile_tags(profile, ignore_keys) ==
  IF Len(profile) = 0
  THEN << >>
  ELSE (IF Head(profile).key \in ignore_keys
        THEN << >>
        ELSE profile_item_tags(Head(profile)))
       \o get_synapse_user_profile_tags(Tail(profile), ignore_keys)

\* json.loads of the stored parameter value
json_loads(text) ==
  IF text.well_formed
  THEN Return(text.decoded)
  ELSE Raise("JSONDecodeError", "Expecting value", "json.loads")

\* the loop of get_synapse_team_ids over the decoded roster
RECURSIVE team_ids_of(_)
team_ids_of(team_to_role_arn_map) ==
  IF Len(team_to_role_arn_map) = 0
  THEN Return(<< >>)
  ELSE IF "teamId" \notin DOMAIN Head(team_to_role_arn_map)
       THEN Raise("KeyError", "teamId", "get_synapse_team_ids")
       ELSE LET rest == team_ids_of(Tail(team_to_role_arn_map))
            IN  IF rest.raised
                THEN rest
                ELSE Return(<<Head(team_to_role_arn_map).teamId>> \o rest.value)

\* get_synapse_team_ids, from the response of get_parameter on
decode_team_ids(ssm_param) ==
  LET loaded == json_loads(ssm_param.Parameter.Value)
  IN  IF loaded.raised THEN loaded ELSE team_ids_of(loaded.value)

\* get_synapse_user_team_tags, from the result of get_synapse_user_team_id on
team_tags(team_id) ==
  IF Truthy(team_id)
  THEN << [Key |-> SYNAPSE_TAG_PREFIX \o ":teamId", Value |-> team_id] >>
  ELSE << >>

\* mutant: the team tag is put before the profile tags
combine_tags_team_first(user_tags, team_id) == team_tags(team_id) \o user_tags

\* get_synapse_tags: tags = list(synapse_user_tags + synapse_team_tags)
combine_tags(user_tags, team_id) == user_tags \o team_tags(team_id)

-----------------------------------------------------------------------------
(* Inputs: the events, the environment and the responses of the services *)

RequestTypes == {"Create", "Update", "Delete"}

ResourcePropertiesChoices ==
  { [ServiceToken |-> "st"],
    [ServiceToken |-> "st", InstanceId |-> ""],
    [ServiceToken |-> "st", InstanceId |-> "i-1"] }

Events ==
  { [RequestType |-> t] : t \in RequestTypes }
  \cup { [RequestType |-> t, ResourceProperties |-> rp] :
           t \in RequestTypes, rp \in ResourcePropertiesChoices }

Environs ==
  { [AWS_REGION |-> "us-east-1"],
    [AWS_REGION |-> "us-east-1",
     TEAM_TO_ROLE_ARN_MAP_PARAM_NAME |-> "/service-catalog/TeamToRoleArnMap"] }

\* the instance tags the tag query may return during an invocation
WorkflowTags ==
  { [Key |-> principal_arn_tag, Value |-> <<"X", "/", "b", "o", "b">>],
    [Key |-> principal_arn_tag, Value |-> <<"a", "l">>],
    [Key |-> "Name", Value |-> <<"n">>] }

DescribeTagsResponses ==
  { [ResponseMetadata |-> "m"] }
  \cup { [ResponseMetadata |-> "m", Tags |-> t] :
           t \in SeqsUpTo(WorkflowTags, MaxTags) }

\* the tag sets get_principal_id is applied to directly
ArnChars == {"a", "/"}

ArnValues == SeqsUpTo(ArnChars, MaxArnLen)

TagSets ==
  SeqsUpTo([Key : {principal_arn_tag, "Name"}, Value : ArnValues], MaxTags)

ProfileFields == {"userName", "createdOn", "email"}

ProfileValues == {"bob", "al"}

\* a user profile: items in dict order, no key twice
Profiles ==
  { p \in SeqsUpTo([key : ProfileFields, value : ProfileValues],
                   MaxProfileFields) :
      \A i, j \in 1..Len(p) : p[i].key = p[j].key => i = j }

\* the profiles the directory returns during an invocation
WorkflowProfiles == { p \in Profiles : \A i \in 1..Len(p) : p[i].value = "bob" }

IgnoreKeySets == SUBSET ProfileFields

TeamIds == {"t1", "t2"}

RosterItems ==
  { [teamId |-> t, roleArn |-> "r"] : t \in TeamIds } \cup { [roleArn |-> "r"] }

ParameterValues ==
  { [well_formed |-> FALSE, decoded |-> << >>] }
  \cup { [well_formed |-> TRUE, decoded |-> d] :
           d \in SeqsUpTo(RosterItems, MaxRoster) }

\* a failure raised by a client call
ClientError(op) == [type |-> "ClientError", message |-> "", raised_by |-> op]

-----------------------------------------------------------------------------
(* The invocation *)

Pending == [status |-> "pending"]

Ok(body) == [status |-> "ok", body |-> body]

Err(e) == [status |-> "error", error |-> e]

\* os.getenv(name)
getenv(name) == IF name \in DOMAIN environ THEN environ[name] ELSE None

\* a client method is called: the call is outstanding until Respond
Issue(op, request) ==
  calls' = Append(calls, [op |-> op, request |-> request, response |-> Pending])

Respond(response) ==
  calls' = [calls EXCEPT ![Len(calls)].response = response]

\* an exception leaves create_or_update: the helper reports failure
Fail(e) ==
  /\ outcome' = "Failed"
  /\ error' = e
  /\ pc' = "done"

WorkflowInit ==
  /\ event \in Events
  /\ environ \in Environs
  /\ pc = "handler"
  /\ calls = << >>
  /\ instance_id = None
  /\ instance_tags = << >>
  /\ principal_id = << >>
  /\ user_profile = << >>
  /\ synapse_user_tags = << >>
  /\ synapse_team_ids = << >>
  /\ team_index = 0
  /\ user_team_id = None
  /\ synapse_tags = << >>
  /\ outcome = "Running"
  /\ error = NoError

DirectIdle ==
  /\ tags_arg = << >>
  /\ principal_result = Return(<< >>)
  /\ profile_arg = << >>
  /\ ignore_keys_arg = {}
  /\ profile_tags_result = << >>

Init == WorkflowInit /\ DirectIdle

\* mutant: delete events are routed to create_or_update as well
Handler_delete_not_routed ==
  /\ pc = "handler"
  /\ pc' = "create_or_update"
  /\ UNCHANGED <<event, environ, calls, instance_id, instance_tags,
                 principal_id, user_profile, synapse_user_tags,
                 synapse_team_ids, team_index, user_team_id, synapse_tags,
                 outcome, error>>

\* handler(event, context): the helper routes the event by its request type
Handler ==
  /\ pc = "handler"
  /\ pc' = IF event.RequestType = "Delete" THEN "delete" ELSE "create_or_update"
  /\ UNCHANGED <<event, environ, calls, instance_id, instance_tags,
                 principal_id, user_profile, synapse_user_tags,
                 synapse_team_ids, team_index, user_team_id, synapse_tags,
                 outcome, error>>

\* delete(event, context): pass
Delete ==
  /\ pc = "delete"
  /\ pc' = "done"
  /\ outcome' = "Succeeded"
  /\ UNCHANGED <<event, environ, calls, instance_id, instance_tags,
                 principal_id, user_profile, synapse_user_tags,
                 synapse_team_ids, team_index, user_team_id, synapse_tags,
                 error>>

\* create_or_update: instance_id = get_instance_id(event)
GetInstanceId ==
  /\ pc = "create_or_update"
  /\ LET r == get_instance_id(event)
     IN  IF r.raised
         THEN Fail(r.error) /\ UNCHANGED instance_id
         ELSE /\ instance_id' = r.value
              /\ pc' = "describe_tags"
              /\ UNCHANGED <<outcome, error>>
  /\ UNCHANGED <<event, environ, calls, instance_tags, principal_id,
                 user_profile, synapse_user_tags, synapse_team_ids,
                 team_index, user_team_id, synapse_tags>>

\* get_instance_tags: client.describe_tags(Filters=...)
DescribeTagsCall ==
  /\ pc = "describe_tags"
  /\ Issue("describe_tags",
           [Filters |-> << [Name |-> "resource-id",
                            Values |-> <<instance_id>>] >>])
  /\ pc' = "await_describe_tags"
  /\ UNCHANGED <<event, environ, instance_id, instance_tags, principal_id,
                 user_profile, synapse_user_tags, synapse_team_ids,
                 team_index, user_team_id, synapse_tags, outcome, error>>

\* get_instance_tags: the call raises, or returns and the tags are checked
DescribeTagsReturn ==
  /\ pc = "await_describe_tags"
  /\ \/ /\ Respond(Err(ClientError("describe_tags")))
        /\ Fail(ClientError("describe_tags"))
        /\ UNCHANGED instance_tags
     \/ \E response \in DescribeTagsResponses :
          /\ Respond(Ok(response))
          /\ LET r == check_instance_tags(response)
             IN  IF r.raised
                 THEN Fail(r.error) /\ UNCHANGED instance_tags
                 ELSE /\ instance_tags' = r.value
                      /\ pc' = "get_principal_id"
                      /\ UNCHANGED <<outcome, error>>
  /\ UNCHANGED <<event, environ, instance_id, principal_id, user_profile,
                 synapse_user_tags, synapse_team_ids, team_index,
                 user_team_id, synapse_tags>>

\* mutant: the roster is fetched next, before the profile
GetPrincipalId_roster_first ==
  /\ pc = "get_principal_id"
  /\ LET r == get_principal_id(instance_tags)
     IN  IF r.raised
         THEN Fail(r.error) /\ UNCHANGED principal_id
         ELSE /\ principal_id' = r.value
              /\ pc' = "get_parameter"
              /\ UNCHANGED <<outcome, error>>
  /\ UNCHANGED <<event, environ, calls, instance_id, instance_tags,
                 user_profile, synapse_user_tags, synapse_team_ids,
                 team_index, user_team_id, synapse_tags>>

\* create_or_update: principal_id = get_principal_id(instance_tags)
GetPrincipalId ==
  /\ pc = "get_principal_id"
  /\ LET r == get_principal_id(instance_tags)
     IN  IF r.raised
         THEN Fail(r.error) /\ UNCHANGED principal_id
         ELSE /\ principal_id' = r.value
              /\ pc' = "getUserProfile"
              /\ UNCHANGED <<outcome, error>>
  /\ UNCHANGED <<event, environ, calls, instance_id, instance_tags,
                 user_profile, synapse_user_tags, synapse_team_ids,
                 team_index, user_team_id, synapse_tags>>

\* get_synapse_user_profile: syn.getUserProfile(synapse_id)
GetUserProfileCall ==
  /\ pc = "getUserProfile"
  /\ Issue("getUserProfile", [id |-> principal_id])
  /\ pc' = "await_getUserProfile"
  /\ UNCHANGED <<event, environ, instance_id, instance_tags, principal_id,
                 user_profile, synapse_user_tags, synapse_team_ids,
                 team_index, user_team_id, synapse_tags, outcome, error>>

\* get_synapse_tags: the profile arrives and is mapped to tags
GetUserProfileReturn ==
  /\ pc = "await_getUserProfile"
  /\ \/ /\ Respond(Err(ClientError("getUserProfile")))
        /\ Fail(ClientError("getUserProfile"))
        /\ UNCHANGED <<user_profile, synapse_user_tags>>
     \/ \E profile \in WorkflowProfiles :
          /\ Respond(Ok(profile))
          /\ user_profile' = profile
          /\ synapse_user_tags' =
               get_synapse_user_profile_tags(profile, DefaultIgnoreKeys)
          /\ pc' = "get_parameter"
          /\ UNCHANGED <<outcome, error>>
  /\ UNCHANGED <<event, environ, instance_id, instance_tags, principal_id,
                 synapse_team_ids, team_index, user_team_id, synapse_tags>>

\* get_synapse_team_ids: get_ssm_parameter(os.getenv(...))
GetParameterCall ==
  /\ pc = "get_parameter"
  /\ Issue("get_parameter", [Name |-> getenv(TEAM_TO_ROLE_ARN_MAP_PARAM_NAME)])
  /\ pc' = "await_get_parameter"
  /\ UNCHANGED <<event, environ, instance_id, instance_tags, principal_id,
                 user_profile, synapse_user_tags, synapse_team_ids,
                 team_index, user_team_id, synapse_tags, outcome, error>>

\* get_synapse_team_ids: the call raises (it always does for Name=None, which
\* the client rejects), or returns and the roster is decoded
GetParameterReturn ==
  /\ pc = "await_get_parameter"
  /\ \/ /\ Last(calls).request.Name = None
        /\ Respond(Err([type |-> "ParamValidationError",
                        message |-> "Invalid type for parameter Name",
                        raised_by |-> "get_parameter"]))
        /\ Fail([type |-> "ParamValidationError",
                 message |-> "Invalid type for parameter Name",
                 raised_by |-> "get_parameter"])
        /\ UNCHANGED <<synapse_team_ids, team_index>>
     \/ /\ Last(calls).request.Name # None
        /\ Respond(Err(ClientError("get_parameter")))
        /\ Fail(ClientError("get_parameter"))
        /\ UNCHANGED <<synapse_team_ids, team_index>>
     \/ /\ Last(calls).request.Name # None
        /\ \E value \in ParameterValues :
             LET ssm_param == [Parameter |-> [Value |-> value]]
                 r == decode_team_ids(ssm_param)
             IN  /\ Respond(Ok(ssm_param))
                 /\ IF r.raised
                    THEN Fail(r.error)
                         /\ UNCHANGED <<synapse_team_ids, team_index>>
                    ELSE /\ synapse_team_ids' = r.value
                         /\ team_index' = 1
                         /\ pc' = "get_membership_status"
                         /\ UNCHANGED <<outcome, error>>
  /\ UNCHANGED <<event, environ, instance_id, instance_tags, principal_id,
                 user_profile, synapse_user_tags, user_team_id, synapse_tags>>

\* get_synapse_user_team_id: syn.get_membership_status(synapse_id, team_id)
MembershipCall ==
  /\ pc = "get_membership_status"
  /\ team_index <= Len(synapse_team_ids)
  /\ Issue("get_membership_status",
           [user |-> principal_id, team |-> synapse_team_ids[team_index]])
  /\ pc' = "await_get_membership_status"
  /\ UNCHANGED <<event, environ, instance_id, instance_tags, principal_id,
                 user_profile, synapse_user_tags, synapse_team_ids,
                 team_index, user_team_id, synapse_tags, outcome, error>>

\* mutant: a failed membership query is caught and counted as "not a member"
MembershipReturn_swallows_error ==
  /\ pc = "await_get_membership_status"
  /\ \/ /\ Respond(Err(ClientError("get_membership_status")))
        /\ team_index' = team_index + 1
        /\ pc' = "get_membership_status"
        /\ UNCHANGED <<user_team_id, synapse_tags, outcome, error>>
     \/ \E isMember \in BOOLEAN :
          /\ Respond(Ok([isMember |-> isMember]))
          /\ IF isMember
             THEN /\ user_team_id' = synapse_team_ids[team_index]
                  /\ synapse_tags' =
                       combine_tags(synapse_user_tags,
                                    synapse_team_ids[team_index])
                  /\ pc' = "create_tags"
                  /\ UNCHANGED team_index
             ELSE /\ team_index' = team_index + 1
                  /\ pc' = "get_membership_status"
                  /\ UNCHANGED <<user_team_id, synapse_tags>>
          /\ UNCHANGED <<outcome, error>>
  /\ UNCHANGED <<event, environ, instance_id, instance_tags, principal_id,
                 user_profile, synapse_user_tags, synapse_team_ids>>

\* mutant: a member does not end the loop, the rest of the roster is queried
MembershipReturn_no_short_circuit ==
  /\ pc = "await_get_membership_status"
  /\ \/ /\ Respond(Err(ClientError("get_membership_status")))
        /\ Fail(ClientError("get_membership_status"))
        /\ UNCHANGED <<team_index, user_team_id, synapse_tags>>
     \/ \E isMember \in BOOLEAN :
          /\ Respond(Ok([isMember |-> isMember]))
          /\ IF isMember /\ team_index = Len(synapse_team_ids)
             THEN /\ user_team_id' = synapse_team_ids[team_index]
                  /\ synapse_tags' =
                       combine_tags(synapse_user_tags,
                                    synapse_team_ids[team_index])
                  /\ pc' = "create_tags"
                  /\ UNCHANGED team_index
             ELSE /\ team_index' = team_index + 1
                  /\ pc' = "get_membership_status"
                  /\ UNCHANGED <<user_team_id, synapse_tags>>
          /\ UNCHANGED <<outcome, error>>
  /\ UNCHANGED <<event, environ, instance_id, instance_tags, principal_id,
                 user_profile, synapse_user_tags, synapse_team_ids>>

\* get_synapse_user_team_id: the status arrives; a member ends the loop and
\* get_synapse_tags builds the tag list
MembershipReturn ==
  /\ pc = "await_get_membership_status"
  /\ \/ /\ Respond(Err(ClientError("get_membership_status")))
        /\ Fail(ClientError("get_membership_status"))
        /\ UNCHANGED <<team_index, user_team_id, synapse_tags>>
     \/ \E isMember \in BOOLEAN :
          /\ Respond(Ok([isMember |-> isMember]))
          /\ IF isMember
             THEN /\ user_team_id' = synapse_team_ids[team_index]
                  /\ synapse_tags' =
                       combine_tags(synapse_user_tags,
                                    synapse_team_ids[team_index])
                  /\ pc' = "create_tags"
                  /\ UNCHANGED team_index
             ELSE /\ team_index' = team_index + 1
                  /\ pc' = "get_membership_status"
                  /\ UNCHANGED <<user_team_id, synapse_tags>>
          /\ UNCHANGED <<outcome, error>>
  /\ UNCHANGED <<event, environ, instance_id, instance_tags, principal_id,
                 user_profile, synapse_user_tags, synapse_team_ids>>

\* get_synapse_user_team_id: the loop ends without a member, return None
NoTeam ==
  /\ pc = "get_membership_status"
  /\ team_index > Len(synapse_team_ids)
  /\ user_team_id' = None
  /\ synapse_tags' = combine_tags(synapse_user_tags, None)
  /\ pc' = "create_tags"
  /\ UNCHANGED <<event, environ, calls, instance_id, instance_tags,
                 principal_id, user_profile, synapse_user_tags,
                 synapse_team_ids, team_index, outcome, error>>

\* create_or_update: client.create_tags(Resources=[instance_id], Tags=...)
CreateTagsCall ==
  /\ pc = "create_tags"
  /\ Issue("create_tags",
           [Resources |-> <<instance_id>>, Tags |-> synapse_tags])
  /\ pc' = "await_create_tags"
  /\ UNCHANGED <<event, environ, instance_id, instance_tags, principal_id,
                 user_profile, synapse_user_tags, synapse_team_ids,
                 team_index, user_team_id, synapse_tags, outcome, error>>

\* create_or_update returns, or the call raises
CreateTagsReturn ==
  /\ pc = "await_create_tags"
  /\ \/ /\ Respond(Err(ClientError("create_tags")))
        /\ Fail(ClientError("create_tags"))
     \/ /\ Respond(Ok([Return |-> TRUE]))
        /\ outcome' = "Succeeded"
        /\ pc' = "done"
        /\ UNCHANGED error
  /\ UNCHANGED <<event, environ, instance_id, instance_tags, principal_id,
                 user_profile, synapse_user_tags, synapse_team_ids,
                 team_index, user_team_id, synapse_tags>>

Next ==
  \/ (Handler /\ UNCHANGED direct_vars)
  \/ (Delete /\ UNCHANGED direct_vars)
  \/ (GetInstanceId /\ UNCHANGED direct_vars)
  \/ (DescribeTagsCall /\ UNCHANGED direct_vars)
  \/ (DescribeTagsReturn /\ UNCHANGED direct_vars)
  \/ (GetPrincipalId /\ UNCHANGED direct_vars)
  \/ (GetUserProfileCall /\ UNCHANGED direct_vars)
  \/ (GetUserProfileReturn /\ UNCHANGED direct_vars)
  \/ (GetParameterCall /\ UNCHANGED direct_vars)
  \/ (GetParameterReturn /\ UNCHANGED direct_vars)
  \/ (MembershipCall /\ UNCHANGED direct_vars)
  \/ (MembershipReturn /\ UNCHANGED direct_vars)
  \/ (NoTeam /\ UNCHANGED direct_vars)
  \/ (CreateTagsCall /\ UNCHANGED direct_vars)
  \/ (CreateTagsReturn /\ UNCHANGED direct_vars)

Spec == Init /\ [][Next]_vars

-----------------------------------------------------------------------------
(* get_principal_id and get_synapse_user_profile_tags called on their own, *)
(* on every tag set and on every profile and ignore set within the bounds  *)

NoInvocation ==
  /\ event = [RequestType |-> "Create"]
  /\ environ = [AWS_REGION |-> "us-east-1"]
  /\ calls = << >>
  /\ instance_id = None
  /\ instance_tags = << >>
  /\ principal_id = << >>
  /\ user_profile = << >>
  /\ synapse_user_tags = << >>
  /\ synapse_team_ids = << >>
  /\ team_index = 0
  /\ user_team_id = None
  /\ synapse_tags = << >>
  /\ outcome = "Running"
  /\ error = NoError

PrincipalInit ==
  /\ NoInvocation
  /\ pc = "call_get_principal_id"
  /\ tags_arg \in TagSets
  /\ principal_result = Return(<< >>)
  /\ profile_arg = << >>
  /\ ignore_keys_arg = {}
  /\ profile_tags_result = << >>

CallGetPrincipalId ==
  /\ pc = "call_get_principal_id"
  /\ principal_result' = get_principal_id(tags_arg)
  /\ pc' = "returned"
  /\ UNCHANGED <<event, environ, calls, instance_id, instance_tags,
                 principal_id, user_profile, synapse_user_tags,
                 synapse_team_ids, team_index, user_team_id, synapse_tags,
                 outcome, error, tags_arg, profile_arg, ignore_keys_arg,
                 profile_tags_result>>

PrincipalNext == CallGetPrincipalId

PrincipalSpec == PrincipalInit /\ [][PrincipalNext]_vars

ProfileTagsInit ==
  /\ NoInvocation
  /\ pc = "call_get_synapse_user_profile_tags"
  /\ tags_arg = << >>
  /\ principal_result = Return(<< >>)
  /\ profile_arg \in Profiles
  /\ ignore_keys_arg \in IgnoreKeySets
  /\ profile_tags_result = << >>

CallGetSynapseUserProfileTags ==
  /\ pc = "call_get_synapse_user_profile_tags"
  /\ profile_tags_result' =
       get_synapse_user_profile_tags(profile_arg, ignore_keys_arg)
  /\ pc' = "returned"
  /\ UNCHANGED <<event, environ, calls, instance_id, instance_tags,
                 principal_id, user_profile, synapse_user_tags,
                 synapse_team_ids, team_index, user_team_id, synapse_tags,
                 outcome, error, tags_arg, principal_result, profile_arg,
                 ignore_keys_arg>>

ProfileTagsNext == CallGetSynapseUserProfileTags

ProfileTagsSpec == ProfileTagsInit /\ [][ProfileTagsNext]_vars

-----------------------------------------------------------------------------
(* Vocabulary of the properties *)

IsCreateOrUpdate == event.RequestType \in {"Create", "Update"}

MissingInstanceId(ev) ==
  \/ "ResourceProperties" \notin DOMAIN ev
  \/ "InstanceId" \notin DOMAIN ev.ResourceProperties
  \/ ev.ResourceProperties.InstanceId = ""

ClientOps ==
  {"describe_tags", "getUserProfile", "get_parameter",
   "get_membership_status", "create_tags"}

CallsOf(op) == { i \in 1..Len(calls) : calls[i].op = op }

Returned(i) == calls[i].response.status = "ok"

Errored(i) == calls[i].response.status = "error"

InFlight == { i \in 1..Len(calls) : calls[i].response.status = "pending" }

\* The error classes of the design, by who raises the exception and why:
\* the handler's own check of a required input or setting,
ConfigurationError(e) ==
  e.type = "ValueError"
  /\ e.raised_by \in {"get_instance_id", "get_synapse_team_ids"}

\* a client call that raises,
UpstreamError(e) == e.raised_by \in ClientOps

\* the handler's rejection of data a successful call returned.
DataError(e) ==
  \/ e.type = "Exception" /\ e.raised_by = "get_instance_tags"
  \/ e.type = "ValueError" /\ e.raised_by = "get_principal_id"
  \/ e.type = "JSONDecodeError" /\ e.raised_by = "json.loads"
  \/ e.type = "KeyError" /\ e.raised_by = "get_synapse_team_ids"

DecodeDone == pc \notin {"handler", "create_or_update"}

TeamIdTag(t) == [Key |-> "synapse:teamId", Value |-> t]

\* the profile items a call keeps, in profile order
Kept(profile, ignore_keys) ==
  SelectSeq(profile, LAMBDA item : item.key \notin ignore_keys)

\* where the userName item stands among the kept ones (0: it is not kept)
UserNameAt(kept) ==
  IF \E i \in 1..Len(kept) : kept[i].key = "userName"
  THEN CHOOSE i \in 1..Len(kept) : kept[i].key = "userName"
  ELSE 0

\* one synapse:<field> tag per kept field, in profile order, and the two
\* e-mail tags immediately before synapse:userName
MapsKeptFields(tags, profile, ignore_keys) ==
  LET kept == Kept(profile, ignore_keys)
      u == UserNameAt(kept)
      shift(i) == IF u # 0 /\ i >= u THEN 2 ELSE 0
  IN  /\ Len(tags) = Len(kept) + (IF u # 0 THEN 2 ELSE 0)
      /\ \A i \in 1..Len(kept) :
           tags[i + shift(i)] =
             [Key |-> "synapse:" \o kept[i].key, Value |-> kept[i].value]
      /\ u # 0 =>
           /\ tags[u] = [Key |-> "synapse:email",
                         Value |-> kept[u].value \o "@synapse.org"]
           /\ tags[u + 1] = [Key |-> "OwnerEmail",
                             Value |-> kept[u].value \o "@synapse.org"]

UserNameIgnoredOrAbsent(profile, ignore_keys) ==
  \A i \in 1..Len(profile) :
    profile[i].key = "userName" => "userName" \in ignore_keys

-----------------------------------------------------------------------------
(* C1 *)

\* C1: every create or update event whose InstanceId is missing or empty,
\* the event without ResourceProperties included, fails in get_instance_id
\* with a ConfigurationError carrying 'InstanceId parameter is required',
\* and the invocation makes no client call.
C1_MissingInstanceIdIsConfigurationError ==
  (IsCreateOrUpdate /\ MissingInstanceId(event) /\ DecodeDone) =>
    /\ outcome = "Failed"
    /\ ConfigurationError(error)
    /\ error.message = MISSING_INSTANCE_ID_ERROR_MESSAGE
    /\ calls = << >>

-----------------------------------------------------------------------------
(* C2 *)

\* what a successful call returned makes the step that reads it fail
NoTagsReturned(i) ==
  /\ calls[i].op = "describe_tags"
  /\ Returned(i)
  /\ \/ "Tags" \notin DOMAIN calls[i].response.body
     \/ calls[i].response.body.Tags = << >>

NoPrincipalTag(i) ==
  /\ calls[i].op = "describe_tags"
  /\ Returned(i)
  /\ "Tags" \in DOMAIN calls[i].response.body
  /\ calls[i].response.body.Tags # << >>
  /\ \A k \in 1..Len(calls[i].response.body.Tags) :
       calls[i].response.body.Tags[k].Key # principal_arn_tag
  /\ pc # "get_principal_id"

MalformedRoster(i) ==
  /\ calls[i].op = "get_parameter"
  /\ Returned(i)
  /\ LET value == calls[i].response.body.Parameter.Value
     IN  \/ ~value.well_formed
         \/ \E k \in 1..Len(value.decoded) :
              "teamId" \notin DOMAIN value.decoded[k]

StepFailedAt(i) ==
  Errored(i) \/ NoTagsReturned(i) \/ NoPrincipalTag(i) \/ MalformedRoster(i)

\* C2: in a create/update invocation a failed step (event decode, a client
\* call that raises, the tag check, principal resolution, roster decoding)
\* is the last thing the invocation does: the call it failed on is the last
\* call issued, the outcome is Failed, and a Succeeded invocation ends with
\* a tag-create call that returned after calls that all returned.
C2_FailureAbortsInvocation ==
  IsCreateOrUpdate =>
    /\ (DecodeDone /\ MissingInstanceId(event)) =>
         (outcome = "Failed" /\ calls = << >>)
    /\ \A i \in 1..Len(calls) :
         StepFailedAt(i) => (outcome = "Failed" /\ i = Len(calls))
    /\ \A i \in CallsOf("create_tags") :
         /\ ~MissingInstanceId(event)
         /\ \A j \in 1..(i - 1) : Returned(j) /\ ~StepFailedAt(j)
    /\ outcome = "Succeeded" =>
         /\ calls # << >>
         /\ Last(calls).op = "create_tags"
         /\ \A i \in 1..Len(calls) : Returned(i)

\* a profile fetch failed after the tag query: nothing follows it
C2_Witness ==
  /\ IsCreateOrUpdate
  /\ Len(calls) = 2
  /\ calls[2].op = "getUserProfile"
  /\ Errored(2)
  /\ outcome = "Failed"
  /\ pc = "done"

-----------------------------------------------------------------------------
(* C3 *)

\* C3: a delete event, whatever its payload, makes no client call and the
\* invocation ends Succeeded.
C3_DeleteIsNoOp ==
  event.RequestType = "Delete" =>
    /\ calls = << >>
    /\ outcome # "Failed"
    /\ pc = "done" => outcome = "Succeeded"
    /\ pc \in {"handler", "delete", "done"}

\* a delete event without ResourceProperties has succeeded
C3_Witness ==
  /\ event = [RequestType |-> "Delete"]
  /\ pc = "done"
  /\ outcome = "Succeeded"
  /\ calls = << >>

-----------------------------------------------------------------------------
(* C4 *)

\* the team the membership queries of this invocation resolved, if any
ResolvedTeams ==
  { calls[i].request.team : i \in { j \in CallsOf("get_membership_status") :
                                      Returned(j)
                                      /\ calls[j].response.body.isMember } }

-----------------------------------------------------------------------------
(* C5 *)

-----------------------------------------------------------------------------
(* C6 *)

\* the membership queries of the invocation, in the order issued
MembershipCalls ==
  SelectSeq(calls, LAMBDA c : c.op = "get_membership_status")

TeamLoopDone == pc \in {"create_tags", "await_create_tags"} \/ outcome = "Succeeded"

\* C6: the membership queries follow the roster, entry by entry; a query is
\* issued only after every earlier one answered "not a member"; the result
\* is the entry of the first "member" answer, or no team (no error) when
\* the whole roster, possibly empty, answered "not a member", and then no
\* synapse:teamId tag is appended.
C6_FirstMemberTeam ==
  IsCreateOrUpdate =>
    LET m == MembershipCalls
    IN  /\ Len(m) <= Len(synapse_team_ids)
        /\ \A k \in 1..Len(m) :
             /\ m[k].request.team = synapse_team_ids[k]
             /\ m[k].request.user = principal_id
        /\ \A k \in 1..(Len(m) - 1) :
             /\ m[k].response.status = "ok"
             /\ ~m[k].response.body.isMember
        /\ TeamLoopDone =>
             \/ /\ Len(m) > 0
                /\ m[Len(m)].response.status = "ok"
                /\ m[Len(m)].response.body.isMember
                /\ user_team_id = synapse_team_ids[Len(m)]
                /\ synapse_tags =
                     synapse_user_tags \o <<TeamIdTag(user_team_id)>>
             \/ /\ Len(m) = Len(synapse_team_ids)
                /\ \A k \in 1..Len(m) :
                     /\ m[k].response.status = "ok"
                     /\ ~m[k].response.body.isMember
                /\ user_team_id = None
                /\ synapse_tags = synapse_user_tags

\* a member of the first of two roster entries: the second is never queried
C6_Witness ==
  /\ IsCreateOrUpdate
  /\ outcome = "Succeeded"
  /\ Len(synapse_team_ids) = 2
  /\ Len(MembershipCalls) = 1
  /\ user_team_id = synapse_team_ids[1]

-----------------------------------------------------------------------------
(* C7 *)

\* r is what follows the final '/' of v (all of v when it holds no '/')
AfterFinalSlash(r, v) ==
  \E k \in 0..Len(v) :
    /\ r = SubSeq(v, k + 1, Len(v))
    /\ k = 0 \/ v[k] = "/"
    /\ \A j \in (k + 1)..Len(v) : v[j] # "/"

PrincipalTagAt(tags) ==
  { i \in 1..Len(tags) : tags[i].Key = principal_arn_tag }

\* C7: get_principal_id returns what follows the final '/' of the value of
\* the first tag whose key is aws:servicecatalog:provisioningPrincipalArn,
\* whatever later tags hold, and raises the DataError 'Could not derive a
\* provisioningPrincipalArn from tags' exactly when no tag has that key.
C7_FirstPrincipalTagWins ==
  pc = "returned" =>
    /\ principal_result.raised <=> PrincipalTagAt(tags_arg) = {}
    /\ principal_result.raised =>
         /\ DataError(principal_result.error)
         /\ principal_result.error.message =
              "Could not derive a provisioningPrincipalArn from tags"
    /\ \A i \in PrincipalTagAt(tags_arg) :
         (\A j \in PrincipalTagAt(tags_arg) : i <= j) =>
           AfterFinalSlash(principal_result.value, tags_arg[i].Value)

\* two principal tags with different last segments: the first one decides
C7_Witness ==
  /\ pc = "returned"
  /\ Len(tags_arg) = 2
  /\ tags_arg[1] = [Key |-> principal_arn_tag, Value |-> <<"/", "a">>]
  /\ tags_arg[2] = [Key |-> principal_arn_tag, Value |-> <<"a", "/">>]
  /\ ~principal_result.raised
  /\ principal_result.value = <<"a">>

-----------------------------------------------------------------------------
(* C8 *)

\* C8: a tag query that returns without tags (no Tags entry, or an empty
\* list) makes get_instance_tags raise a DataError, so the tag set handed to
\* get_principal_id is never empty.
C8_NoTagsIsDataError ==
  /\ \A i \in 1..Len(calls) :
       NoTagsReturned(i) =>
         /\ outcome = "Failed"
         /\ DataError(error)
         /\ error.raised_by = "get_instance_tags"
  /\ pc = "get_principal_id" => instance_tags # << >>
  /\ \A i \in CallsOf("getUserProfile") : instance_tags # << >>

\* the tag query returned an empty list and the invocation failed
C8_Witness ==
  /\ Len(calls) = 1
  /\ Returned(1)
  /\ "Tags" \in DOMAIN calls[1].response.body
  /\ calls[1].response.body.Tags = << >>
  /\ outcome = "Failed"

-----------------------------------------------------------------------------
(* C9 *)

\* C9: with the setting TEAM_TO_ROLE_ARN_MAP_PARAM_NAME unset the roster
\* fetch fails with a ConfigurationError, which is neither the UpstreamError
\* of a failed parameter-store call nor the DataError of a malformed value.
C9_UnsetSettingIsConfigurationError ==
  \A i \in CallsOf("get_parameter") :
    (TEAM_TO_ROLE_ARN_MAP_PARAM_NAME \notin DOMAIN environ /\ i \notin InFlight) =>
      /\ outcome = "Failed"
      /\ ConfigurationError(error)
      /\ ~UpstreamError(error)
      /\ ~DataError(error)

-----------------------------------------------------------------------------
(* C10 *)

Stage(op) ==
  CASE op = "describe_tags" -> 1
    [] op = "getUserProfile" -> 2
    [] op = "get_parameter" -> 3
    [] op = "get_membership_status" -> 4
    [] op = "create_tags" -> 5

\* C10: the client calls of a create/update invocation come in the order
\* tag query, profile fetch, parameter fetch, membership queries in roster
\* order, tag create; a call is issued only when every earlier call has
\* returned, so at most one is outstanding; the tag create follows the
\* parameter fetch directly only when the roster is empty.
C10_CallsInFixedOrder ==
  /\ Cardinality(InFlight) <= 1
  /\ \A i \in InFlight : i = Len(calls)
  /\ \A i \in 1..(Len(calls) - 1) : Returned(i)
  /\ calls # << >> => Stage(calls[1].op) = 1
  /\ \A i \in 1..(Len(calls) - 1) :
       LET a == Stage(calls[i].op)
           b == Stage(calls[i + 1].op)
       IN  \/ b = a + 1
           \/ a = 4 /\ b = 4
           \/ a = 3 /\ b = 5 /\ synapse_team_ids = << >>
  /\ \A k \in 1..Len(MembershipCalls) :
       MembershipCalls[k].request.team = synapse_team_ids[k]

\* an empty roster: the profile and the roster are fetched, no membership
\* query is made, and the tags are written
C10_Witness ==
  /\ outcome = "Succeeded"
  /\ synapse_team_ids = << >>
  /\ Len(calls) = 4
  /\ calls[2].op = "getUserProfile"
  /\ calls[3].op = "get_parameter"
  /\ calls[4].op = "create_tags"

====
